---- MODULE Spec2Model ----
(***************************************************************************)
(* Tempo-synchronised mixing of astrbot_plugin_so_vits_svc.                *)
(*                                                                         *)
(*  - AutoSpark/base_time.py : TimeCalculator, the tempo quantizer         *)
(*  - AutoSpark/pedaldsp.py  : the effect chains and the render script     *)
(*  - main.py                : VoiceConverter.mix_audio, the plugin render,*)
(*                             and convert_voice_async behind task_lock    *)
(*  - cache_manager.py       : CacheManager, the conversion cache          *)
(*                                                                         *)
(* Python floats are modelled as exact rationals <<n, d>> in lowest terms  *)
(* (d > 0).  round(x, k) is round-half-to-even of the exact value.         *)
(***************************************************************************)
EXTENDS Integers, Sequences, FiniteSets, TLC

VARIABLES
    call,       \* quantizer harness: the last call made on TimeCalculator
    tempo,      \* the beat tracker's estimate for the track being rendered
    render,     \* which render runs: "none", "script" (pedaldsp), "mix_audio"
    pc,         \* position inside the running render
    stages,     \* the stages the render has completed, in order
    ts,         \* TimeCalculator(...).times of the script, or NoTimes
    fx_voc,     \* parameters of the vocal chain once built
    fx_revb,    \* parameters of the reverb-send chain once built
    fx_master,  \* parameters of the master chain once built
    result,     \* "running", "ok" or "failed"
    buf,        \* the audio buffers of the render
    conv,       \* VoiceConverter: task_lock, current_task and the calling tasks
    cache,      \* CacheManager: the cache directory, its index and the clock
    plugin,     \* the convert_voice command: its cache lookup, chorus cut and save
    msst,       \* the separation server's files and the handlers that use it
    qq          \* QQMusicAPI: credential, credential_lock and the calling tasks

vars == <<call, tempo, render, pc, stages, ts, fx_voc, fx_revb, fx_master, result, buf,
          conv, cache, plugin, msst, qq>>

(***************************************************************************)
(* Bounds of the model.                                                    *)
(***************************************************************************)
\* tempo estimates are the multiples of 1 / TempoDen up to MaxTempo
MaxTempo == 135
TempoDen == 2
\* harness inputs of _note: basic_time = n / d, n in 1..MaxNum, d in 1..MaxDen
MaxNum == 6
MaxDen == 3
\* harness inputs of _select_time: lists of at most MaxLen candidates, each
\* a multiple of 1/2 up to MaxCand / 2
MaxLen == 3
MaxCand == 5
\* the harness also constructs TimeCalculator on the estimates 0 and
\* -k / TempoDen down to -MaxNegTempo
MaxNegTempo == 3
\* the renders run on the tracks whose estimate is 1 / TempoDen or a whole
\* multiple of TempoStep, with buffers of 1..MaxFrames frames
TempoStep == 15
MaxFrames == 3
\* concurrent callers of convert_voice_async
MaxTasks == 3
\* cache: input files are <<head, tail>> with head (the first MiB) in
\* 1..MaxHead and tail (the rest) in 1..MaxTail; cached files have sizes
\* 1..MaxFileSize; the clock runs from 0 to MaxTime
MaxHead == 2
MaxTail == 2
MaxFileSize == 3
MaxTime == 3

MaxChorus == 2

MaxAudio == 2

MaxHandlers == 2

MaxCallers == 2

MaxPolls == 2

(***************************************************************************)
(* Exact rational arithmetic standing for Python's float arithmetic.       *)
(***************************************************************************)
RECURSIVE GCD(_, _)
GCD(a, b) == IF b = 0 THEN a ELSE GCD(b, a % b)

Abs(n) == IF n < 0 THEN -n ELSE n

\* n / d for d # 0, in lowest terms with a positive denominator
Rat(n, d) ==
    LET g == GCD(Abs(n), Abs(d))
        sgn == IF d < 0 THEN -1 ELSE 1
    IN  <<(sgn * n) \div g, Abs(d) \div g>>

RInt(n) == <<n, 1>>

RMul(x, y) == Rat(x[1] * y[1], x[2] * y[2])

\* x / y for y # 0
RDiv(x, y) == Rat(x[1] * y[2], x[2] * y[1])

RSub(x, y) == Rat(x[1] * y[2] - y[1] * x[2], x[2] * y[2])

RAbs(x) == <<Abs(x[1]), x[2]>>

RLess(x, y) == x[1] * y[2] < y[1] * x[2]

RLeq(x, y) == x[1] * y[2] <= y[1] * x[2]

\* int(x): truncation towards zero
PyInt(x) == IF x[1] >= 0 THEN x[1] \div x[2] ELSE -((-x[1]) \div x[2])

Pow10(k) == IF k = 0 THEN 1 ELSE IF k = 1 THEN 10 ELSE 100

\* round(x, k): round half to even at k decimal places (q is the floor)
PyRound(x, k) ==
    LET n == x[1] * Pow10(k)
        q == n \div x[2]
        r == n % x[2]
        up == \/ 2 * r > x[2]
              \/ (2 * r = x[2] /\ q % 2 = 1)
    IN  Rat(IF up THEN q + 1 ELSE q, Pow10(k))

\* min(list) of a non-empty list
RECURSIVE PyMinFrom(_, _, _)
PyMinFrom(s, i, m) ==
    IF i > Len(s) THEN m
    ELSE PyMinFrom(s, i + 1, IF RLess(s[i], m) THEN s[i] ELSE m)

PyMin(s) == PyMinFrom(s, 2, s[1])

\* sorted(list): stable, ascending
RECURSIVE Insert(_, _)
Insert(s, x) ==
    IF s = <<>> THEN <<x>>
    ELSE IF RLess(x, s[Len(s)]) THEN Append(Insert(SubSeq(s, 1, Len(s) - 1), x), s[Len(s)])
    ELSE Append(s, x)

RECURSIVE SortFrom(_, _, _)
SortFrom(s, i, acc) ==
    IF i > Len(s) THEN acc ELSE SortFrom(s, i + 1, Insert(acc, s[i]))

sorted(s) == SortFrom(s, 1, <<>>)

(***************************************************************************)
(* AutoSpark/base_time.py : TimeCalculator                                 *)
(***************************************************************************)
\* for time in times: times.append(time / 2); stop += 1; if stop >= 15: break
\* The list grows while it is iterated: i is the iterator's index.
\* CalcLoop halving the seed of the column each time, never a value it appended.
RECURSIVE CalcLoop_SeedHalves(_, _, _)
CalcLoop_SeedHalves(times, i, stop) ==
    IF i > Len(times) THEN times
    ELSE LET grown == Append(times, RDiv(times[((i - 1) % 3) + 1], RInt(2)))
         IN  IF stop + 1 >= 15 THEN grown ELSE CalcLoop_SeedHalves(grown, i + 1, stop + 1)

\* CalcLoop iterating over a copy of the list ("for time in times[:]"): the
\* iteration exhausts after the three seeds.
RECURSIVE CalcLoop_OverCopy(_, _, _)
CalcLoop_OverCopy(times, i, stop) ==
    IF i > 3 THEN times
    ELSE LET grown == Append(times, RDiv(times[i], RInt(2)))
         IN  IF stop + 1 >= 15 THEN grown ELSE CalcLoop_OverCopy(grown, i + 1, stop + 1)

RECURSIVE CalcLoop(_, _, _)
CalcLoop(times, i, stop) ==
    IF i > Len(times) THEN times
    ELSE LET half_time == RDiv(times[i], RInt(2))
             grown == Append(times, half_time)
         IN  IF stop + 1 >= 15 THEN grown ELSE CalcLoop(grown, i + 1, stop + 1)

_calculate_time(times) == CalcLoop(times, 1, 0)

\* The loop of _select_time: st = <<seen, min_num, closest_num>>, where
\* seen = FALSE stands for min_num = float("inf") and closest_num unbound.
\* SelectLoop with "diff <= min_num": the last of several nearest wins.
RECURSIVE SelectLoop_LastWins(_, _, _, _)
SelectLoop_LastWins(time_lists, standard_value, i, st) ==
    IF i > Len(time_lists) THEN st
    ELSE LET diff == RAbs(RSub(time_lists[i], standard_value))
         IN  IF ~st[1] \/ RLeq(diff, st[2])
             THEN SelectLoop_LastWins(time_lists, standard_value, i + 1,
                                      <<TRUE, diff, time_lists[i]>>)
             ELSE SelectLoop_LastWins(time_lists, standard_value, i + 1, st)

RECURSIVE SelectLoop(_, _, _, _)
SelectLoop(time_lists, standard_value, i, st) ==
    IF i > Len(time_lists) THEN st
    ELSE LET diff == RAbs(RSub(time_lists[i], standard_value))
         IN  IF ~st[1] \/ RLess(diff, st[2])
             THEN SelectLoop(time_lists, standard_value, i + 1, <<TRUE, diff, time_lists[i]>>)
             ELSE SelectLoop(time_lists, standard_value, i + 1, st)

\* _select_time with "min(time_lists) > standard_range".
_select_time_StrictRange(time_lists, standard_value, standard_range, double_mode) ==
    IF RLess(standard_range, PyMin(time_lists))
    THEN IF double_mode THEN RMul(standard_value, RInt(2)) ELSE standard_value
    ELSE LET closest_num == SelectLoop(time_lists, standard_value, 1,
                                       <<FALSE, RInt(0), RInt(0)>>)[3]
         IN  IF double_mode THEN RMul(closest_num, RInt(2)) ELSE closest_num

_select_time(time_lists, standard_value, standard_range, double_mode) ==
    IF RLeq(standard_range, PyMin(time_lists))
    THEN IF double_mode THEN RMul(standard_value, RInt(2)) ELSE standard_value
    ELSE LET closest_num == SelectLoop(time_lists, standard_value, 1,
                                       <<FALSE, RInt(0), RInt(0)>>)[3]
         IN  IF double_mode THEN RMul(closest_num, RInt(2)) ELSE closest_num

\* _note returning fulls without sorting it.
_note_Unsorted(basic_time, rate, mode) ==
    LET note == CASE mode = 0 -> RMul(basic_time, RInt(rate))
                  [] mode = 1 -> RDiv(basic_time, RInt(rate))
        dot == RMul(note, <<3, 2>>)
        trip == RDiv(RMul(note, RInt(2)), RInt(3))
    IN  _calculate_time(<<note, dot, trip>>)

_note(basic_time, rate, mode) ==
    LET note == CASE mode = 0 -> RMul(basic_time, RInt(rate))
                  [] mode = 1 -> RDiv(basic_time, RInt(rate))
        dot == RMul(note, <<3, 2>>)
        trip == RDiv(RMul(note, RInt(2)), RInt(3))
        bases == <<note, dot, trip>>
        fulls == _calculate_time(bases)
    IN  sorted(fulls)

\* reverb_pre_delay rounding to 1 decimal place, as compressor_release does.
reverb_pre_delay_Round1(basic_time) ==
    LET pre_delay_raws == _note(basic_time, 8, 1)
        pre_delays == [i \in 1..Len(pre_delay_raws) |-> PyRound(pre_delay_raws[i], 1)]
    IN  <<_select_time(pre_delays, <<3, 5>>, RInt(1), TRUE),
          _select_time(pre_delays, RInt(2), RInt(4), TRUE),
          _select_time(pre_delays, RInt(10), RInt(20), TRUE),
          _select_time(pre_delays, RInt(20), RInt(40), TRUE)>>

\* reverb_pre_delay leaving double_mode at its default False.
reverb_pre_delay_NoDouble(basic_time) ==
    LET pre_delay_raws == _note(basic_time, 8, 1)
        pre_delays == [i \in 1..Len(pre_delay_raws) |-> PyRound(pre_delay_raws[i], 2)]
    IN  <<_select_time(pre_delays, <<3, 5>>, RInt(1), FALSE),
          _select_time(pre_delays, RInt(2), RInt(4), FALSE),
          _select_time(pre_delays, RInt(10), RInt(20), FALSE),
          _select_time(pre_delays, RInt(20), RInt(40), FALSE)>>

reverb_pre_delay(basic_time) ==
    LET pre_delay_raws == _note(basic_time, 8, 1)
        pre_delays == [i \in 1..Len(pre_delay_raws) |-> PyRound(pre_delay_raws[i], 2)]
        roomER == _select_time(pre_delays, <<3, 5>>, RInt(1), TRUE)
        roomLR == _select_time(pre_delays, RInt(2), RInt(4), TRUE)
        plate == _select_time(pre_delays, RInt(10), RInt(20), TRUE)
        hall == _select_time(pre_delays, RInt(20), RInt(40), TRUE)
    IN  <<roomER, roomLR, plate, hall>>

\* compressor_release returning (fast, medium, limiter, slow).
compressor_release_Swapped(basic_time) ==
    LET release_raws == _note(basic_time, 2, 0)
        releases == [i \in 1..Len(release_raws) |-> PyRound(release_raws[i], 1)]
    IN  <<_select_time(releases, RInt(100), RInt(200), FALSE),
          _select_time(releases, RInt(350), RInt(500), FALSE),
          _select_time(releases, RInt(450), RInt(800), FALSE),
          _select_time(releases, RInt(500), RInt(1000), FALSE)>>

compressor_release(basic_time) ==
    LET release_raws == _note(basic_time, 2, 0)
        releases == [i \in 1..Len(release_raws) |-> PyRound(release_raws[i], 1)]
        fast == _select_time(releases, RInt(100), RInt(200), FALSE)
        medium == _select_time(releases, RInt(350), RInt(500), FALSE)
        slow == _select_time(releases, RInt(500), RInt(1000), FALSE)
        limiter == _select_time(releases, RInt(450), RInt(800), FALSE)
    IN  <<fast, medium, slow, limiter>>

NoTimes == [pre_delay |-> <<>>, release |-> <<>>]

\* TimeCalculator.__init__ with "bpm > 100".
TimeCalculator_Above100(t) ==
    LET bpm0 == PyInt(t)
        bpm == IF bpm0 > 100 THEN Rat(bpm0, 2) ELSE RInt(bpm0)
    IN  IF bpm0 = 0
        THEN [raised |-> TRUE, basic_time |-> RInt(0), times |-> NoTimes]
        ELSE LET basic_time == RDiv(RInt(60000), bpm)
             IN  [raised |-> FALSE,
                  basic_time |-> basic_time,
                  times |-> [pre_delay |-> reverb_pre_delay(basic_time),
                             release |-> compressor_release(basic_time)]]

\* TimeCalculator.__init__ on a track whose beat tracker reports t.
\* 60000 / bpm raises ZeroDivisionError when int(tempo) = 0.
TimeCalculator(t) ==
    LET bpm0 == PyInt(t)
        bpm == IF bpm0 >= 100 THEN Rat(bpm0, 2) ELSE RInt(bpm0)
    IN  IF bpm0 = 0
        THEN [raised |-> TRUE, basic_time |-> RInt(0), times |-> NoTimes]
        ELSE LET basic_time == RDiv(RInt(60000), bpm)
             IN  [raised |-> FALSE,
                  basic_time |-> basic_time,
                  times |-> [pre_delay |-> reverb_pre_delay(basic_time),
                             release |-> compressor_release(basic_time)]]

(***************************************************************************)
(* The quantizer harness: one call of one TimeCalculator operation on      *)
(* inputs drawn from bounded sets.                                         *)
(***************************************************************************)
Tempos == {Rat(k, TempoDen) : k \in 1..(MaxTempo * TempoDen)}

\* the estimates __init__ is called with in the harness: the positive ones,
\* 0 (beat_track on a track without onsets) and negative ones
TempoArgs == Tempos \cup {Rat(-k, TempoDen) : k \in 0..(MaxNegTempo * TempoDen)}

BasicTimes == {Rat(n, d) : n \in 1..MaxNum, d \in 1..MaxDen}

NoteRates == {1, 2, 3, 8}

Cands == {Rat(k, 2) : k \in 1..MaxCand}

Ranges == {Rat(k, 2) : k \in 1..(MaxCand + 1)}

RECURSIVE ListsUpTo(_)
ListsUpTo(n) ==
    IF n = 0 THEN {<<>>}
    ELSE LET shorter == ListsUpTo(n - 1)
         IN  shorter \cup {Append(s, c) : s \in {x \in shorter : Len(x) = n - 1}, c \in Cands}

CandLists == ListsUpTo(MaxLen) \ {<<>>}

NoCall == [fn |-> "none"]

RenderIdle ==
    /\ render = "none"
    /\ pc = "idle"
    /\ stages = <<>>
    /\ ts = NoTimes
    /\ fx_voc = <<>>
    /\ fx_revb = <<>>
    /\ fx_master = <<>>
    /\ result = "running"
    /\ buf = [voc |-> <<>>, inst |-> <<>>, eff_voc |-> <<>>, stereo |-> <<>>,
              revb |-> <<>>, eff_inst |-> <<>>, combined |-> <<>>, output |-> <<>>,
              written |-> <<>>]

Tasks == 1..MaxTasks

\* VoiceConverter.__init__: current_task = None (0), task_lock unlocked with
\* no waiters; no task has called convert_voice_async yet
ConvIdle ==
    conv = [pc |-> [t \in Tasks |-> "idle"],
            ret |-> [t \in Tasks |-> "none"],
            locked |-> FALSE,
            waiters |-> <<>>,
            current_task |-> 0]

NoOp == [fn |-> "none"]

\* no chorus_cache.json in the cache directory
NoChorusFile == [exists |-> FALSE, cache |-> {}]

\* CacheManager.__init__ on an empty cache directory
CacheEmpty ==
    cache = [index |-> <<>>, files |-> {}, now |-> 0, op |-> NoOp,
             chorus |-> NoChorusFile]

\* no request: audio 0 is no audio
NoReq == [audio |-> 0, only_chorus |-> FALSE]

NoLast == [req |-> NoReq, known |-> FALSE, answered |-> "none", reply |-> NoReq]

\* no convert_voice command received yet
PluginIdle ==
    plugin = [pc |-> "idle", req |-> NoReq, known |-> FALSE, input_file |-> 0,
              stored |-> {}, content |-> {}, last |-> NoLast]

Handlers == 1..MaxHandlers

NoStems == [vocals |-> 0, inst |-> 0]

\* no separation requested yet; task_lock free
MsstIdle ==
    msst = [pc |-> [h \in Handlers |-> "idle"],
            server |-> NoStems,
            got |-> [h \in Handlers |-> NoStems],
            locked |-> FALSE]

Callers == 1..MaxCallers

\* QQMusicAPI.__init__: credential None, credential_lock free; the credential
\* file of an earlier run may be on disk
QQFresh(file) ==
    [pc |-> [t \in Callers |-> "idle"],
     fn |-> [t \in Callers |-> "none"],
     ret |-> [t \in Callers |-> "none"],
     polls |-> [t \in Callers |-> 0],
     locked |-> FALSE,
     waiters |-> <<>>,
     woken |-> {},
     credential |-> FALSE,
     file |-> file]

QQIdle == qq = QQFresh(FALSE)

OthersIdle == PluginIdle /\ MsstIdle /\ QQIdle

others == <<plugin, msst, qq>>

InitTQ ==
    /\ call = NoCall
    /\ tempo = RInt(1)
    /\ RenderIdle
    /\ ConvIdle
    /\ CacheEmpty
    /\ OthersIdle

renderVars == <<tempo, render, pc, stages, ts, fx_voc, fx_revb, fx_master, result, buf>>

CallInit ==
    /\ call = NoCall
    /\ \E t \in TempoArgs :
         call' = [fn |-> "__init__", tempo |-> t, self |-> TimeCalculator(t)]
    /\ UNCHANGED <<renderVars, conv, cache, others>>

CallNote ==
    /\ call = NoCall
    /\ \E b \in BasicTimes, rate \in NoteRates, mode \in {0, 1} :
         call' = [fn |-> "_note", basic_time |-> b, rate |-> rate, mode |-> mode,
                  ret |-> _note(b, rate, mode)]
    /\ UNCHANGED <<renderVars, conv, cache, others>>

CallSelect ==
    /\ call = NoCall
    /\ \E l \in CandLists, v \in Cands, r \in Ranges, dm \in BOOLEAN :
         call' = [fn |-> "_select_time", time_lists |-> l, standard_value |-> v,
                  standard_range |-> r, double_mode |-> dm,
                  ret |-> _select_time(l, v, r, dm)]
    /\ UNCHANGED <<renderVars, conv, cache, others>>

CallCalculate ==
    /\ call = NoCall
    /\ \E a \in Cands, b \in Cands, c \in Cands :
         call' = [fn |-> "_calculate_time", times |-> <<a, b, c>>,
                  ret |-> _calculate_time(<<a, b, c>>)]
    /\ UNCHANGED <<renderVars, conv, cache, others>>

NextTQ == CallInit \/ CallNote \/ CallSelect \/ CallCalculate

SpecTQ == InitTQ /\ [][NextTQ]_vars

(***************************************************************************)
(* The effect chains.  A chain is kept as the parameters the claims are    *)
(* about: the arguments it was built from and the Delay, Compressor and    *)
(* Limiter settings they end up in.  Delay takes seconds.                  *)
(***************************************************************************)
\* pedaldsp.vocal(release, fb) and VoiceConverter._process_vocal
vocal(release, fb) ==
    [duck_release |-> fb, main_release |-> release]

\* pedaldsp.reverb(s, m, l, d) and VoiceConverter._process_reverb
reverb(s, m, l, d) ==
    [s |-> s, m |-> m, l |-> l, d |-> d,
     delay_seconds |-> RDiv(d, RInt(8)),
     short_seconds |-> RDiv(s, RInt(1000)),
     medium_seconds |-> RDiv(m, RInt(1000)),
     long_seconds |-> RDiv(l, RInt(1000))]

\* pedaldsp.master(comp_rel, lim_rel) and VoiceConverter._process_master
master(comp_rel, lim_rel) ==
    [comp_rel |-> comp_rel, lim_rel |-> lim_rel]

\* the defaults of _process_vocal, _process_reverb and _process_master
DefaultRelease == 300
DefaultFb == 180
DefaultS == 5
DefaultM == 25
DefaultLongTime == 50
DefaultD == 200
DefaultCompRel == 500
DefaultLimRel == 400

StageOrder ==
    <<"Loaded", "VocalProcessed", "Stereoized", "ReverbApplied",
      "InstrumentProcessed", "Combined", "Mastered", "Written">>

(***************************************************************************)
(* Audio buffers.  A buffer is a sequence of channels, a channel a         *)
(* sequence of samples; <<>> is a buffer not yet produced.  pedalboard and *)
(* the audio files are external: what they yield is a buffer of the shape  *)
(* of their input whose sample at channel c, frame i is the mark           *)
(* w * (10 * c + i), with a weight w per producer, so that a sum of        *)
(* samples identifies its terms.                                           *)
(***************************************************************************)
Marked(w, channels, frames) ==
    [c \in 1..channels |-> [i \in 1..frames |-> w * (10 * c + i)]]

Channels(x) == Len(x)

\* x.shape[1]
Frames(x) == Len(x[1])

\* AudioFile(path).resampled_to(sample_rate).read(frames)
load(channels, frames) == Marked(1, channels, frames)

\* an effect chain applied to x: the output has the shape of x
Effect(w, x) == Marked(w, Channels(x), Frames(x))

\* np.tile(x, (2, 1))
Tile(x) == x \o x

Min(a, b) == IF a <= b THEN a ELSE b

Max(a, b) == IF a >= b THEN a ELSE b

\* x[:, :n]
Truncated(x, n) == [c \in 1..Channels(x) |-> SubSeq(x[c], 1, Min(n, Len(x[c])))]

\* numpy broadcasting of one dimension
Broadcastable(m, n) == m = n \/ m = 1 \/ n = 1

CanAdd(x, y) ==
    /\ Broadcastable(Channels(x), Channels(y))
    /\ Broadcastable(Frames(x), Frames(y))

\* x + y of two arrays that broadcast
NpAdd(x, y) ==
    [c \in 1..Max(Channels(x), Channels(y)) |->
        [i \in 1..Max(Frames(x), Frames(y)) |->
            x[IF Channels(x) = 1 THEN 1 ELSE c][IF Frames(x) = 1 THEN 1 ELSE i]
          + y[IF Channels(y) = 1 THEN 1 ELSE c][IF Frames(y) = 1 THEN 1 ELSE i]]]

\* combine with min_length = vocal.shape[1], the instrument's length forgotten
combine_VocalLength(voc, rv, ins) ==
    LET min_length == Frames(voc)
        voc_new == Truncated(voc, min_length)
        revb_new == Truncated(rv, min_length)
        inst_new == Truncated(ins, min_length)
    IN  IF CanAdd(voc_new, inst_new) /\ CanAdd(NpAdd(voc_new, inst_new), revb_new)
        THEN [raised |-> FALSE, combined |-> NpAdd(NpAdd(voc_new, inst_new), revb_new)]
        ELSE [raised |-> TRUE, combined |-> <<>>]

\* combine leaving the reverb buffer out of the sum
combine_NoReverb(voc, rv, ins) ==
    LET min_length == Min(Frames(voc), Frames(ins))
        voc_new == Truncated(voc, min_length)
        inst_new == Truncated(ins, min_length)
    IN  IF CanAdd(voc_new, inst_new)
        THEN [raised |-> FALSE, combined |-> NpAdd(voc_new, inst_new)]
        ELSE [raised |-> TRUE, combined |-> <<>>]

\* pedaldsp.combine(vocal, revb, inst), and lines 514-515 of mix_audio:
\* a shape mismatch makes the addition raise ValueError
combine(voc, rv, ins) ==
    LET min_length == Min(Frames(voc), Frames(ins))
        voc_new == Truncated(voc, min_length)
        revb_new == Truncated(rv, min_length)
        inst_new == Truncated(ins, min_length)
    IN  IF CanAdd(voc_new, inst_new) /\ CanAdd(NpAdd(voc_new, inst_new), revb_new)
        THEN [raised |-> FALSE, combined |-> NpAdd(NpAdd(voc_new, inst_new), revb_new)]
        ELSE [raised |-> TRUE, combined |-> <<>>]

\* the tempo estimates of the tracks that are rendered
RenderTempos ==
    {t \in Tempos : t = Rat(1, TempoDen) \/ (t[2] = 1 /\ t[1] % TempoStep = 0)}

Init ==
    /\ call = NoCall
    /\ tempo \in RenderTempos
    /\ RenderIdle
    /\ ConvIdle
    /\ CacheEmpty
    /\ OthersIdle

chains == <<fx_voc, fx_revb, fx_master>>

\* Abort with the failed statement left to be run again
Abort_Retry ==
    /\ pc' = pc
    /\ result' = "failed"

\* the render ends on an exception (script) or with return False (mix_audio)
Abort ==
    /\ pc' = "done"
    /\ result' = "failed"

(***************************************************************************)
(* AutoSpark/pedaldsp.py : the module-level render script, lines 137-156.  *)
(* An exception at any statement ends the script.  buf holds the script's  *)
(* voc, inst, eff_voc, stereo, revb, eff_inst, combined and output, and    *)
(* written, the content of the output file.                                *)
(***************************************************************************)
StartScript ==
    /\ render = "none"
    /\ render' = "script"
    /\ pc' = "s138"
    /\ UNCHANGED <<others, conv, cache, call, tempo, stages, ts, chains, result, buf>>

\* ts = TimeCalculator(setting.voc_path).times
ScriptTimes ==
    /\ render = "script" /\ pc = "s138"
    /\ LET tc == TimeCalculator(tempo)
       IN  IF tc.raised
           THEN Abort /\ UNCHANGED ts
           ELSE ts' = tc.times /\ pc' = "s142" /\ UNCHANGED result
    /\ UNCHANGED <<others, conv, cache, call, tempo, render, stages, chains, buf>>

\* voc = load(setting.voc_path); inst = load(setting.inst_path)
ScriptLoad ==
    /\ render = "script" /\ pc = "s142"
    /\ \/ /\ \E vc \in 1..2, vn \in 1..MaxFrames, ic \in 1..2, n \in 1..MaxFrames :
               buf' = [buf EXCEPT !.voc = load(vc, vn), !.inst = load(ic, n)]
          /\ stages' = Append(stages, "Loaded")
          /\ pc' = "s145"
          /\ UNCHANGED result
       \/ Abort /\ UNCHANGED <<stages, buf>>
    /\ UNCHANGED <<others, conv, cache, call, tempo, render, ts, chains>>

\* fx_voc = vocal(release[1], release[0]); fx_revb = reverb(predelay[0],
\* predelay[2], predelay[3], predelay[1]); fx_master = master(release[3], release[2])
ScriptBuild ==
    /\ render = "script" /\ pc = "s145"
    /\ fx_voc' = vocal(ts.release[2], ts.release[1])
    /\ fx_revb' = reverb(ts.pre_delay[1], ts.pre_delay[3], ts.pre_delay[4], ts.pre_delay[2])
    /\ fx_master' = master(ts.release[4], ts.release[3])
    /\ pc' = "s149"
    /\ UNCHANGED <<others, conv, cache, call, tempo, render, stages, ts, result, buf>>

\* a statement of the script that applies an effect chain or an array
\* operation and binds its value to a name: it completes the stage or raises
ScriptStage(at, stage, to, name, value) ==
    /\ render = "script" /\ pc = at
    /\ \E ok \in BOOLEAN :
         IF ok
         THEN /\ stages' = Append(stages, stage)
              /\ buf' = [buf EXCEPT ![name] = value]
              /\ pc' = to
              /\ UNCHANGED result
         ELSE Abort /\ UNCHANGED <<stages, buf>>
    /\ UNCHANGED <<others, conv, cache, call, tempo, render, ts, chains>>

\* eff_voc = fx_voc(voc, setting.sample_rate)
ScriptVocal ==
    ScriptStage("s149", "VocalProcessed", "s150", "eff_voc", Effect(1, buf.voc))

\* stereo = np.tile(eff_voc, (2, 1))
ScriptStereo ==
    ScriptStage("s150", "Stereoized", "s152", "stereo", Tile(buf.eff_voc))

\* revb = fx_revb(stereo, setting.sample_rate)
ScriptReverb ==
    ScriptStage("s152", "ReverbApplied", "s153", "revb", Effect(10000, buf.stereo))

\* eff_inst = fx_inst(inst, setting.sample_rate)
ScriptInstrument ==
    ScriptStage("s153", "InstrumentProcessed", "s154", "eff_inst", Effect(100, buf.inst))

\* combined = combine(eff_voc, revb, eff_inst)
ScriptCombine ==
    /\ render = "script" /\ pc = "s154"
    /\ LET c == combine(buf.eff_voc, buf.revb, buf.eff_inst)
       IN  IF c.raised
           THEN Abort /\ UNCHANGED <<stages, buf>>
           ELSE /\ stages' = Append(stages, "Combined")
                /\ buf' = [buf EXCEPT !.combined = c.combined]
                /\ pc' = "s155"
                /\ UNCHANGED result
    /\ UNCHANGED <<others, conv, cache, call, tempo, render, ts, chains>>

\* output = fx_master(combined, setting.sample_rate)
ScriptMaster ==
    ScriptStage("s155", "Mastered", "s156", "output", Effect(1000000, buf.combined))

\* out_put("output/mixdown.flac", output): the file is opened for writing and
\* the frames are written; a write that raises leaves no file or a shorter one
ScriptWrite ==
    /\ render = "script" /\ pc = "s156"
    /\ \E ok \in BOOLEAN :
         IF ok
         THEN /\ stages' = Append(stages, "Written")
              /\ buf' = [buf EXCEPT !.written = buf.output]
              /\ pc' = "done"
              /\ result' = "ok"
         ELSE /\ Abort
              /\ UNCHANGED stages
              /\ \/ UNCHANGED buf
                 \/ \E k \in 0..(Frames(buf.output) - 1) :
                      buf' = [buf EXCEPT !.written = Truncated(buf.output, k)]
    /\ UNCHANGED <<others, conv, cache, call, tempo, render, ts, chains>>

(***************************************************************************)
(* main.py : VoiceConverter.mix_audio, lines 479-556.  Every exception is  *)
(* caught at line 554 and every failed memory check returns: both make     *)
(* mix_audio return False.  Its vocal, inst, processed_vocal,              *)
(* stereo_vocal, reverb_vocal, processed_inst, combined and final are      *)
(* buf.voc, inst, eff_voc, stereo, revb, eff_inst, combined and output.    *)
(***************************************************************************)
StartMix ==
    /\ render = "none"
    /\ render' = "mix_audio"
    /\ pc' = "m483"
    /\ UNCHANGED <<others, conv, cache, call, tempo, stages, ts, chains, result, buf>>

\* os.path.getsize of both inputs and check_memory_safe(total_input_size)
MixCheckInput ==
    /\ render = "mix_audio" /\ pc = "m483"
    /\ \E is_safe \in BOOLEAN :
         IF is_safe THEN pc' = "m495" /\ UNCHANGED result ELSE Abort
    /\ UNCHANGED <<others, conv, cache, call, tempo, render, stages, ts, chains, buf>>

\* vocal = self._load_audio(vocal_path); inst = self._load_audio(inst_path)
MixLoad ==
    /\ render = "mix_audio" /\ pc = "m495"
    /\ \/ /\ \E vc \in 1..2, vn \in 1..MaxFrames, ic \in 1..2, n \in 1..MaxFrames :
               buf' = [buf EXCEPT !.voc = load(vc, vn), !.inst = load(ic, n)]
          /\ stages' = Append(stages, "Loaded")
          /\ pc' = "m501"
          /\ UNCHANGED result
       \/ Abort /\ UNCHANGED <<stages, buf>>
    /\ UNCHANGED <<others, conv, cache, call, tempo, render, ts, chains>>

\* processed_vocal = self._process_vocal(vocal)
MixVocal ==
    /\ render = "mix_audio" /\ pc = "m501"
    /\ fx_voc' = vocal(RInt(DefaultRelease), RInt(DefaultFb))
    /\ \E ok \in BOOLEAN :
         IF ok
         THEN /\ stages' = Append(stages, "VocalProcessed")
              /\ buf' = [buf EXCEPT !.eff_voc = Effect(1, buf.voc)]
              /\ pc' = "m502"
              /\ UNCHANGED result
         ELSE Abort /\ UNCHANGED <<stages, buf>>
    /\ UNCHANGED <<others, conv, cache, call, tempo, render, ts, fx_revb, fx_master>>

\* mix_audio feeding processed_vocal to _process_reverb without tiling it.
MixStereo_Skipped ==
    /\ render = "mix_audio" /\ pc = "m502"
    /\ pc' = "m506"
    /\ buf' = [buf EXCEPT !.stereo = buf.eff_voc]
    /\ UNCHANGED <<others, conv, cache, call, tempo, render, stages, ts, chains, result>>

\* stereo_vocal = np.tile(processed_vocal, (2, 1))
MixStereo ==
    /\ render = "mix_audio" /\ pc = "m502"
    /\ \E ok \in BOOLEAN :
         IF ok
         THEN /\ stages' = Append(stages, "Stereoized")
              /\ buf' = [buf EXCEPT !.stereo = Tile(buf.eff_voc)]
              /\ pc' = "m506"
              /\ UNCHANGED result
         ELSE Abort /\ UNCHANGED <<stages, buf>>
    /\ UNCHANGED <<others, conv, cache, call, tempo, render, ts, chains>>

\* reverb_vocal = self._process_reverb(stereo_vocal)
MixReverb ==
    /\ render = "mix_audio" /\ pc = "m506"
    /\ \E is_safe \in BOOLEAN :
         IF is_safe
         THEN /\ fx_revb' = reverb(RInt(DefaultS), RInt(DefaultM),
                                   RInt(DefaultLongTime), RInt(DefaultD))
              /\ \E ok \in BOOLEAN :
                   IF ok
                   THEN /\ stages' = Append(stages, "ReverbApplied")
                        /\ buf' = [buf EXCEPT !.revb = Effect(10000, buf.stereo)]
                        /\ pc' = "m510"
                        /\ UNCHANGED result
                   ELSE Abort /\ UNCHANGED <<stages, buf>>
         ELSE Abort /\ UNCHANGED <<stages, fx_revb, buf>>
    /\ UNCHANGED <<others, conv, cache, call, tempo, render, ts, fx_voc, fx_master>>

\* processed_inst = self._process_instrument(inst)
MixInstrument ==
    /\ render = "mix_audio" /\ pc = "m510"
    /\ \E ok \in BOOLEAN :
         IF ok
         THEN /\ stages' = Append(stages, "InstrumentProcessed")
              /\ buf' = [buf EXCEPT !.eff_inst = Effect(100, buf.inst)]
              /\ pc' = "m514"
              /\ UNCHANGED result
         ELSE Abort /\ UNCHANGED <<stages, buf>>
    /\ UNCHANGED <<others, conv, cache, call, tempo, render, ts, chains>>

\* min_length = ...; combined = ...; check_memory_safe(combined_size)
MixCombine ==
    /\ render = "mix_audio" /\ pc = "m514"
    /\ LET c == combine(buf.eff_voc, buf.revb, buf.eff_inst)
       IN  IF c.raised
           THEN Abort /\ UNCHANGED <<stages, buf>>
           ELSE /\ stages' = Append(stages, "Combined")
                /\ buf' = [buf EXCEPT !.combined = c.combined]
                /\ \E is_safe \in BOOLEAN :
                     IF is_safe THEN pc' = "m526" /\ UNCHANGED result ELSE Abort
    /\ UNCHANGED <<others, conv, cache, call, tempo, render, ts, chains>>

\* final = self._process_master(combined); check_memory_safe(final_size)
MixMaster ==
    /\ render = "mix_audio" /\ pc = "m526"
    /\ fx_master' = master(RInt(DefaultCompRel), RInt(DefaultLimRel))
    /\ \E ok \in BOOLEAN :
         IF ok
         THEN /\ stages' = Append(stages, "Mastered")
              /\ buf' = [buf EXCEPT !.output = Effect(1000000, buf.combined)]
              /\ \E is_safe \in BOOLEAN :
                   IF is_safe THEN pc' = "m537" /\ UNCHANGED result ELSE Abort
         ELSE Abort /\ UNCHANGED <<stages, buf>>
    /\ UNCHANGED <<others, conv, cache, call, tempo, render, ts, fx_voc, fx_revb>>

\* with AudioFile(output_path, "w", ...) as output: output.write(final);
\* a write that raises leaves no file or a shorter one
MixWrite ==
    /\ render = "mix_audio" /\ pc = "m537"
    /\ \E ok \in BOOLEAN :
         IF ok
         THEN /\ stages' = Append(stages, "Written")
              /\ buf' = [buf EXCEPT !.written = buf.output]
              /\ pc' = "done"
              /\ result' = "ok"
         ELSE /\ Abort
              /\ UNCHANGED stages
              /\ \/ UNCHANGED buf
                 \/ \E k \in 0..(Frames(buf.output) - 1) :
                      buf' = [buf EXCEPT !.written = Truncated(buf.output, k)]
    /\ UNCHANGED <<others, conv, cache, call, tempo, render, ts, chains>>

Next ==
    \/ StartScript \/ ScriptTimes \/ ScriptLoad \/ ScriptBuild \/ ScriptVocal
    \/ ScriptStereo \/ ScriptReverb \/ ScriptInstrument \/ ScriptCombine
    \/ ScriptMaster \/ ScriptWrite
    \/ StartMix \/ MixCheckInput \/ MixLoad \/ MixVocal \/ MixStereo \/ MixReverb
    \/ MixInstrument \/ MixCombine \/ MixMaster \/ MixWrite

Spec == Init /\ [][Next]_vars

(***************************************************************************)
(* Claims about the tempo quantizer, checked under SpecTQ.                 *)
(***************************************************************************)
IsInit == call.fn = "__init__"
IsNote == call.fn = "_note"
IsSelect == call.fn = "_select_time"

\* the claimed tempo correction, applied to a rational x
Corrected(x) == IF RLeq(RInt(100), x) THEN RDiv(x, RInt(2)) ELSE x

\* C1 (as stated): for every positive tempo estimate bpm, the BasicTime computed
\* equals 60000 / correctedBpm with correctedBpm = bpm / 2 when bpm >= 100 and
\* bpm otherwise.
C1_AsStated ==
    (IsInit /\ RLess(RInt(0), call.tempo) /\ ~call.self.raised) =>
        call.self.basic_time = RDiv(RInt(60000), Corrected(call.tempo))

\* C1 (amended): for every tempo estimate whose integer part b = int(tempo) is
\* at least 1, BasicTime equals 60000 / correctedBpm with correctedBpm = b / 2
\* when b >= 100 and b otherwise.
C1_BasicTime ==
    IsInit =>
        LET b == call.tempo[1] \div call.tempo[2]
        IN  b >= 1 => /\ ~call.self.raised
                      /\ RMul(call.self.basic_time, Corrected(RInt(b))) = RInt(60000)

C1_Witness ==
    /\ IsInit
    /\ ~call.self.raised
    /\ call.tempo[2] # 1
    /\ RLeq(RInt(100), call.tempo)

Seed(b, rate, mode) == IF mode = 0 THEN RMul(b, RInt(rate)) ELSE RDiv(b, RInt(rate))

\* C2: the note family is sorted ascending, has exactly 18 elements and
\* contains seed, seed * 1.5 and seed * 2 / 3.
C2_NoteFamily ==
    IsNote =>
        LET f == call.ret
            seed == Seed(call.basic_time, call.rate, call.mode)
        IN  /\ Len(f) = 18
            /\ \A i \in 1..(Len(f) - 1) : RLeq(f[i], f[i + 1])
            /\ \E i \in 1..Len(f) : f[i] = seed
            /\ \E i \in 1..Len(f) : f[i] = RMul(seed, <<3, 2>>)
            /\ \E i \in 1..Len(f) : f[i] = RMul(seed, <<2, 3>>)

C2_Witness ==
    /\ IsNote
    /\ call.mode = 1
    /\ call.rate = 8
    /\ Len(call.ret) = 18
    /\ call.ret[18] = RMul(Seed(call.basic_time, 8, 1), <<3, 2>>)

Doubled(x, double_mode) == IF double_mode THEN RMul(x, RInt(2)) ELSE x

AllAtLeastRange ==
    \A i \in 1..Len(call.time_lists) : RLeq(call.standard_range, call.time_lists[i])

Dist(i) == RAbs(RSub(call.time_lists[i], call.standard_value))

\* C3: when every candidate is >= rangeThreshold, selectTime returns target,
\* or target * 2 in doubleMode, whatever the candidates are.
C3_Fallback ==
    (IsSelect /\ AllAtLeastRange) =>
        call.ret = Doubled(call.standard_value, call.double_mode)

C3_Witness ==
    /\ IsSelect
    /\ AllAtLeastRange
    /\ call.double_mode
    /\ PyMin(call.time_lists) = call.standard_range
    /\ \A i \in 1..Len(call.time_lists) :
          /\ call.time_lists[i] # call.standard_value
          /\ call.ret # Doubled(call.time_lists[i], TRUE)

\* C4: when some candidate is < rangeThreshold, selectTime returns c (2 * c in
\* doubleMode) for a candidate c no other candidate is strictly nearer to the
\* target than, the first in list order among those equally near.
C4_Nearest ==
    (IsSelect /\ ~AllAtLeastRange) =>
        \E i \in 1..Len(call.time_lists) :
            /\ call.ret = Doubled(call.time_lists[i], call.double_mode)
            /\ \A j \in 1..Len(call.time_lists) : RLeq(Dist(i), Dist(j))
            /\ \A j \in 1..(i - 1) : RLess(Dist(i), Dist(j))

C4_Witness ==
    /\ IsSelect
    /\ ~AllAtLeastRange
    /\ \E i, j \in 1..Len(call.time_lists) :
          /\ i < j
          /\ call.time_lists[i] # call.time_lists[j]
          /\ Dist(i) = Dist(j)
          /\ \A k \in 1..Len(call.time_lists) : RLeq(Dist(i), Dist(k))
          /\ call.ret = Doubled(call.time_lists[i], call.double_mode)

RoundedFamily(basic_time, rate, mode, places) ==
    LET f == _note(basic_time, rate, mode)
    IN  [i \in 1..Len(f) |-> PyRound(f[i], places)]

\* C5: the PreDelaySet is (roomER, roomLR, plate, hall) = selectTime with
\* bands (0.6, 1), (2, 4), (10, 20), (20, 40), doubleMode on, over the family
\* of rate 8 in divide mode rounded to 2 decimal places.
C5_PreDelay ==
    (IsInit /\ ~call.self.raised) =>
        LET c == RoundedFamily(call.self.basic_time, 8, 1, 2)
            p == call.self.times.pre_delay
        IN  /\ Len(p) = 4
            /\ p[1] = _select_time(c, <<6, 10>>, <<1, 1>>, TRUE)
            /\ p[2] = _select_time(c, <<2, 1>>, <<4, 1>>, TRUE)
            /\ p[3] = _select_time(c, <<10, 1>>, <<20, 1>>, TRUE)
            /\ p[4] = _select_time(c, <<20, 1>>, <<40, 1>>, TRUE)

C5_Witness ==
    /\ IsInit
    /\ ~call.self.raised
    /\ call.self.times.pre_delay[1] = <<6, 5>>
    /\ call.self.times.pre_delay[2] # <<4, 1>>
    /\ call.self.times.pre_delay[3] # <<20, 1>>
    /\ call.self.times.pre_delay[4] # <<40, 1>>
    /\ call.self.times.pre_delay[3][2] = 50

\* C6: the ReleaseSet is (fast, medium, slow, limiter) = selectTime with
\* bands (100, 200), (350, 500), (500, 1000), (450, 800), doubleMode off, over
\* the family of rate 2 in multiply mode rounded to 1 decimal place.
C6_Release ==
    (IsInit /\ ~call.self.raised) =>
        LET c == RoundedFamily(call.self.basic_time, 2, 0, 1)
            r == call.self.times.release
        IN  /\ Len(r) = 4
            /\ r[1] = _select_time(c, <<100, 1>>, <<200, 1>>, FALSE)
            /\ r[2] = _select_time(c, <<350, 1>>, <<500, 1>>, FALSE)
            /\ r[3] = _select_time(c, <<500, 1>>, <<1000, 1>>, FALSE)
            /\ r[4] = _select_time(c, <<450, 1>>, <<800, 1>>, FALSE)

C6_Witness ==
    /\ IsInit
    /\ ~call.self.raised
    /\ call.self.times.release[3] # call.self.times.release[4]
    /\ call.self.times.release[1][2] = 5

\* C14: computeBasicTime fails exactly when bpm <= 0: every estimate > 0, also
\* one below 1, yields a finite positive BasicTime, and every estimate <= 0 is
\* reported as a failure.
C14_FailsIffNonPositive ==
    IsInit =>
        /\ call.self.raised <=> RLeq(call.tempo, RInt(0))
        /\ ~call.self.raised => RLess(RInt(0), call.self.basic_time)

InBand(x, lo, hi) == RLeq(RInt(lo), x) /\ RLeq(x, RInt(hi))

\* C15: at BPM = 120 BasicTime is 1000 ms, the four pre-delays are at least 1
\* and below 100 ms, and the four releases lie in 19..2000 ms.
C15_RoundTrip120 ==
    (IsInit /\ call.tempo = RInt(120)) =>
        /\ ~call.self.raised
        /\ call.self.basic_time = RInt(1000)
        /\ \A i \in 1..4 :
              /\ RLeq(RInt(1), call.self.times.pre_delay[i])
              /\ RLess(call.self.times.pre_delay[i], RInt(100))
              /\ InBand(call.self.times.release[i], 19, 2000)

C15_Witness ==
    /\ IsInit
    /\ call.tempo = RInt(120)
    /\ call.self.times.pre_delay = <<<<6, 5>>, <<26, 5>>, <<521, 25>>, <<2083, 50>>>>
    /\ call.self.times.release = <<<<469, 5>>, <<3333, 10>>, <<500, 1>>, <<500, 1>>>>

IsCalculate == call.fn = "_calculate_time"

\* C19: from a 3-element list the halving loop appends exactly 15 values, the
\* i-th of them (i = 0..14, list position 3 + i) being half of the element at
\* list position i, so values appended earlier are halved later in the pass.
C19_HalvingOrder ==
    IsCalculate =>
        /\ Len(call.ret) = 3 + 15
        /\ SubSeq(call.ret, 1, 3) = call.times
        /\ \A i \in 0..14 : RMul(call.ret[3 + i + 1], RInt(2)) = call.ret[i + 1]

C19_Witness ==
    /\ IsCalculate
    /\ Len(call.ret) = 18
    /\ call.times[1] # call.times[2]
    /\ call.times[2] # call.times[3]
    /\ RMul(call.ret[18], RInt(32)) = call.times[3]
    /\ RMul(call.ret[7], RInt(4)) = call.times[1]

(***************************************************************************)
(* Claims about the chains and the render, checked under Spec.             *)
(***************************************************************************)
\* the PreDelaySet and ReleaseSet derived from the track's tempo
\* how often x occurs in the list q
Count(q, x) == Cardinality({i \in 1..Len(q) : q[i] = x})

SameMultiset(p, q) ==
    /\ Len(p) = Len(q)
    /\ \A i \in 1..Len(p) : Count(p, p[i]) = Count(q, p[i])

\* the seeds-only scheme: each of the three seeds halved 0..5 times
HalvedFiveTimes(seeds) ==
    [j \in 1..18 |-> RDiv(seeds[((j - 1) \div 6) + 1], RInt(2 ^ ((j - 1) % 6)))]

\* C22: the list the index-growing halving loop returns, and the note family
\* sorted from it, hold the same values with the same multiplicities as the
\* scheme that halves each of the three seeds five times: 6 values per seed,
\* s / 2^k for k in 0..5.
C22_SeedsOnlyFamily ==
    /\ IsCalculate => SameMultiset(call.ret, HalvedFiveTimes(call.times))
    /\ IsNote =>
          LET seed == Seed(call.basic_time, call.rate, call.mode)
          IN  SameMultiset(call.ret,
                  HalvedFiveTimes(<<seed, RMul(seed, <<3, 2>>), RMul(seed, <<2, 3>>)>>))

C22_Witness ==
    /\ IsCalculate
    /\ call.times[1] = call.times[2]
    /\ call.times[3] = RMul(call.times[1], RInt(2))
    /\ Count(call.ret, call.times[1]) = 3

TrackTimes == TimeCalculator(tempo)

\* C7: in every render the master chain's Compressor release equals
\* ReleaseSet.limiter and its Limiter release equals ReleaseSet.slow, of the
\* ReleaseSet derived from the track's tempo.
C7_MasterWiring ==
    fx_master # <<>> =>
        LET tc == TrackTimes
        IN  ~tc.raised => /\ fx_master.comp_rel = tc.times.release[4]
                          /\ fx_master.lim_rel = tc.times.release[3]

\* C8: in every render the short branch is driven by PreDelaySet.roomER, the
\* medium branch by plate, the long branch by hall and the plain delay branch
\* by roomLR, of the PreDelaySet derived from the track's tempo.
C8_PreDelayWiring ==
    fx_revb # <<>> =>
        LET tc == TrackTimes
        IN  ~tc.raised => /\ fx_revb.s = tc.times.pre_delay[1]
                          /\ fx_revb.m = tc.times.pre_delay[3]
                          /\ fx_revb.l = tc.times.pre_delay[4]
                          /\ fx_revb.d = tc.times.pre_delay[2]

\* C9: the plain delay branch's delay time in seconds is preDelayDuck / 8 / 1000,
\* the millisecond-to-second conversion of the short, medium and long branches.
C9_DelaySeconds ==
    fx_revb # <<>> =>
        fx_revb.delay_seconds = RDiv(RDiv(fx_revb.d, RInt(8)), RInt(1000))

IsPrefix(s, t) == Len(s) <= Len(t) /\ s = SubSeq(t, 1, Len(s))

\* C10: a render completes its stages once each, in the order Loaded,
\* VocalProcessed, Stereoized, ReverbApplied, InstrumentProcessed, Combined,
\* Mastered, Written: none is skipped or repeated, and a render that succeeds
\* has completed all of them, Written last.
C10_StageOrder ==
    /\ IsPrefix(stages, StageOrder)
    /\ result = "ok" => stages = StageOrder
    /\ (Len(stages) > 0 /\ stages[Len(stages)] = "Written") => result = "ok"

C10_Witness ==
    /\ render = "mix_audio"
    /\ result = "ok"
    /\ stages = StageOrder


Last(q) == q[Len(q)]

Range(q) == {q[i] : i \in 1..Len(q)}

\* the Combined stage has run to its end in this state
CombineDone == pc \in {"s155", "m526"} \/ (pc = "done" /\ buf.combined # <<>>)

\* the combine statement raised in this state's render
CombineRaised ==
    /\ result = "failed"
    /\ buf.eff_inst # <<>>
    /\ buf.combined = <<>>

\* C11: whatever the lengths of the vocal and of the instrument, every channel
\* of the combined buffer has min(length of the processed vocal, length of the
\* processed instrument) frames, the combined buffer is the sum of the dry
\* vocal, the reverb buffer and the instrument buffer each cut to that length,
\* and with a mono vocal the combination never fails over the lengths.
C11_LengthAlignment ==
    /\ buf.combined # <<>> =>
          LET n == Min(Frames(buf.eff_voc), Frames(buf.eff_inst))
          IN  /\ \A c \in 1..Channels(buf.combined) : Len(buf.combined[c]) = n
              /\ \A x \in {buf.eff_voc, buf.revb, buf.eff_inst} :
                    \A c \in 1..Channels(x) :
                       /\ Len(Truncated(x, n)[c]) = n
                       /\ Truncated(x, n)[c] = SubSeq(x[c], 1, n)
              /\ buf.combined = NpAdd(NpAdd(Truncated(buf.eff_voc, n),
                                            Truncated(buf.eff_inst, n)),
                                      Truncated(buf.revb, n))
    /\ CombineRaised => Channels(buf.voc) # 1

C11_Witness ==
    /\ CombineDone
    /\ Frames(buf.eff_inst) >= 2
    /\ Frames(buf.eff_voc) > Frames(buf.eff_inst)
    /\ Frames(buf.combined) = Frames(buf.eff_inst)

\* C12: every sample of every channel of the combined buffer is exactly the
\* dry processed vocal sample plus the wet reverb sample plus the processed
\* instrument sample at the same index (a mono buffer lending its one channel
\* to every output channel), with no gain or normalisation.
C12_SampleSum ==
    buf.combined # <<>> =>
        /\ Channels(buf.combined) = Channels(buf.revb)
        /\ \A c \in 1..Channels(buf.combined) :
              \A i \in 1..Len(buf.combined[c]) :
                 buf.combined[c][i] =
                      buf.eff_voc[IF Channels(buf.eff_voc) = 1 THEN 1 ELSE c][i]
                    + buf.revb[c][i]
                    + buf.eff_inst[IF Channels(buf.eff_inst) = 1 THEN 1 ELSE c][i]

C12_Witness ==
    /\ CombineDone
    /\ Channels(buf.eff_inst) = 2
    /\ Frames(buf.combined) = MaxFrames

WakeUpFirst(c) ==
    IF c.waiters # <<>> /\ c.pc[Head(c.waiters)] = "wait"
    THEN [c EXCEPT !.pc[Head(c.waiters)] = "woken"]
    ELSE c

\* Lock.release, at the exit of async with
Release(c) == WakeUpFirst([c EXCEPT !.locked = FALSE])

\* the waiters without the future of task t
Dequeued(c, t) ==
    [c EXCEPT !.waiters = SelectSeq(c.waiters, LAMBDA w : w # t)]

\* Finish without the finally clause: current_task keeps the finished task
Finish_NoReset(c, t, r) ==
    Release([c EXCEPT !.pc[t] = "idle", !.ret[t] = r])

\* lines 612-647 once convert_voice has returned or raised: the return value,
\* finally: current_task = None, and the exit of async with
Finish(c, t, r) ==
    Release([c EXCEPT !.current_task = 0, !.pc[t] = "idle", !.ret[t] = r])

\* lines 600-608 run by task t holding the lock, up to the first await of
\* convert_voice; convert_voice returns False before it when the memory
\* check fails or the input file is missing (ready = FALSE)
Enter(c, t, ready) ==
    IF c.current_task # 0
    THEN Release([c EXCEPT !.pc[t] = "idle", !.ret[t] = "False"])
    ELSE IF ready
         THEN [c EXCEPT !.current_task = t, !.pc[t] = "health"]
         ELSE Finish([c EXCEPT !.current_task = t], t, "False")

\* Lock.acquire's test for taking the lock without waiting
CanAcquire(c) ==
    /\ ~c.locked
    /\ \A i \in 1..Len(c.waiters) : c.pc[c.waiters[i]] = "wait_cancelled"

\* convert_voice_async without the lock and without the current_task test
Call_Unguarded(t) ==
    /\ conv.pc[t] = "idle"
    /\ conv' = [conv EXCEPT !.current_task = t, !.pc[t] = "health", !.ret[t] = "none"]
    /\ UNCHANGED <<call, renderVars, cache, others>>

\* task t calls convert_voice_async: async with self.task_lock
Call(t) ==
    /\ conv.pc[t] = "idle"
    /\ LET c == [conv EXCEPT !.ret[t] = "none"]
       IN  IF CanAcquire(c)
           THEN \E ready \in BOOLEAN : conv' = Enter([c EXCEPT !.locked = TRUE], t, ready)
           ELSE conv' = [c EXCEPT !.waiters = Append(@, t), !.pc[t] = "wait"]
    /\ UNCHANGED <<call, renderVars, cache, others>>

\* a woken waiter runs again: it leaves the queue and takes the lock
Resume(t) ==
    /\ conv.pc[t] = "woken"
    /\ \E ready \in BOOLEAN :
         conv' = Enter([Dequeued(conv, t) EXCEPT !.locked = TRUE], t, ready)
    /\ UNCHANGED <<call, renderVars, cache, others>>

\* task.cancel() on a task inside convert_voice_async (the plugin's
\* cancel_convert, line 1661)
Cancel(t) ==
    /\ conv.pc[t] \in {"wait", "woken", "health", "post"}
    /\ conv' = [conv EXCEPT !.pc[t] =
                    CASE @ = "wait" -> "wait_cancelled"
                      [] @ = "woken" -> "woken_cancelled"
                      [] OTHER -> "unwinding"]
    /\ UNCHANGED <<call, renderVars, cache, others>>

\* a cancelled waiter runs again: CancelledError in acquire()
CancelledInAcquire(t) ==
    /\ conv.pc[t] \in {"wait_cancelled", "woken_cancelled"}
    /\ LET c == [Dequeued(conv, t) EXCEPT !.pc[t] = "idle", !.ret[t] = "Cancelled"]
       IN  conv' = IF c.locked THEN c ELSE WakeUpFirst(c)
    /\ UNCHANGED <<call, renderVars, cache, others>>

\* convert_voice, line 710: health = await self.check_health()
HealthChecked(t) ==
    /\ conv.pc[t] = "health"
    /\ \E healthy \in BOOLEAN :
         conv' = IF healthy THEN [conv EXCEPT !.pc[t] = "post"]
                 ELSE Finish(conv, t, "False")
    /\ UNCHANGED <<call, renderVars, cache, others>>

\* convert_voice, lines 767-830: the request to the inference backend ends
Posted(t) ==
    /\ conv.pc[t] = "post"
    /\ \E success \in BOOLEAN :
         conv' = Finish(conv, t, IF success THEN "True" ELSE "False")
    /\ UNCHANGED <<call, renderVars, cache, others>>

\* CancelledError leaves convert_voice and convert_voice_async
Unwind(t) ==
    /\ conv.pc[t] = "unwinding"
    /\ conv' = Finish(conv, t, "Cancelled")
    /\ UNCHANGED <<call, renderVars, cache, others>>

InitConv ==
    /\ call = NoCall
    /\ tempo = RInt(1)
    /\ RenderIdle
    /\ ConvIdle
    /\ CacheEmpty
    /\ OthersIdle

NextConv ==
    \E t \in Tasks :
        \/ Call(t) \/ Resume(t) \/ Cancel(t) \/ CancelledInAcquire(t)
        \/ HealthChecked(t) \/ Posted(t) \/ Unwind(t)

SpecConv == InitConv /\ [][NextConv]_vars

\* task t is executing the conversion body
InBody(t) == conv.pc[t] \in {"health", "post", "unwinding"}

\* C16: however many tasks call convert_voice_async, at most one of them is
\* inside convert_voice at any time, and it is the one that holds task_lock
\* and is recorded as current_task.
C16_MutualExclusion ==
    /\ \A t1 \in Tasks, t2 \in Tasks : (InBody(t1) /\ InBody(t2)) => t1 = t2
    /\ \A t \in Tasks : InBody(t) => (conv.locked /\ conv.current_task = t)

C16_Witness ==
    \E t1 \in Tasks, t2 \in Tasks, t3 \in Tasks :
        /\ conv.pc[t1] = "post"
        /\ conv.pc[t2] = "wait"
        /\ conv.pc[t3] = "wait_cancelled"

\* in this step task t takes task_lock and runs the test of line 600
Acquires(t) ==
    \/ conv.pc[t] = "woken" /\ conv'.pc[t] \in {"health", "idle"}
    \/ conv.pc[t] = "idle" /\ conv'.pc[t] = "health"
    \/ conv.pc[t] = "idle" /\ conv'.pc[t] = "idle" /\ conv'.ret[t] # conv.ret[t]

\* C23: whenever task_lock is free current_task is None, also after a
\* conversion failed, raised or was cancelled; current_task is only ever the
\* task inside convert_voice; and every task that takes the lock finds
\* current_task None, so none returns False through the test of line 600.
C23_NoBusyReturn ==
    /\ [](~conv.locked => conv.current_task = 0)
    /\ [](\A t \in Tasks : conv.current_task = t => InBody(t))
    /\ [][\A t \in Tasks : Acquires(t) => conv.current_task = 0]_vars

C23_Witness ==
    \E t1 \in Tasks, t2 \in Tasks, t3 \in Tasks :
        /\ ~conv.locked
        /\ conv.current_task = 0
        /\ conv.ret[t1] = "Cancelled"
        /\ conv.ret[t3] = "False"
        /\ conv.pc[t2] = "woken"

(***************************************************************************)
(* cache_manager.py : CacheManager.  Its methods are synchronous, so each  *)
(* is one step.  cache.files is the set of <key>.wav files of the cache    *)
(* directory with their sizes, cache.index the content of cache_index.json *)
(* in the order of the dictionary (json keeps it), cache.now the clock and *)
(* cache.op the last call with what it returned.  An input file is its     *)
(* first MiB (head) and the rest (tail); a Python argument is its type and *)
(* its str().  md5 is taken to be injective: a digest is the hashed value  *)
(* itself, tagged.  None is <<>>.                                          *)
(***************************************************************************)
\* the constructor's max_cache_size and max_cache_age, in the units of the
\* model's sizes and clock
max_cache_size == 2
max_cache_age == 1

PyValue(type, repr) == [type |-> type, repr |-> repr]

str(v) == v.repr

md5(x) == <<"md5", x>>

NoKey == <<>>

SpeakerArgs == {PyValue("str", "0"), PyValue("str", "1")}

PitchArgs == {PyValue("int", "0"), PyValue("int", "12")}

\* **kwargs as a set of <<name, value>>
KwargSets == {{}, {<<"k_step", PyValue("int", "100")>>}}

Requests ==
    [exists : BOOLEAN, head : 1..MaxHead, tail : 1..MaxTail,
     speaker_id : SpeakerArgs, pitch_adjust : PitchArgs, kwargs : KwargSets]

\* the requests that are saved and looked up
CachedRequests ==
    {r \in Requests : r.tail = 1 /\ r.kwargs = {} /\ str(r.pitch_adjust) = "0"}

\* params as the set of its items (json.dumps sorts the keys)
_generate_cache_key(r) ==
    IF ~r.exists THEN NoKey
    ELSE LET params == {<<"file_hash", md5(r.head)>>,
                        <<"speaker_id", str(r.speaker_id)>>,
                        <<"pitch_adjust", str(r.pitch_adjust)>>}
             names == {kw[1] : kw \in r.kwargs}
         IN  md5({p \in params : p[1] \notin names}
                 \cup {<<kw[1], str(kw[2])>> : kw \in r.kwargs})

\* os.path.join(self.cache_dir, cache_key + ".wav")
cache_file(key) == <<"wav", key>>

IndexKeys(index) == {index[i].key : i \in 1..Len(index)}

FileKeys(files) == {f.key : f \in files}

\* os.path.getsize(cache_file)
getsize(files, key) == (CHOOSE f \in files : f.key = key).size

\* os.remove of the files of the keys
Removed(files, keys) == {f \in files : f.key \notin keys}

\* del index[key] for the keys
Deleted(index, keys) == SelectSeq(index, LAMBDA e : e.key \notin keys)

Front(q) == SubSeq(q, 1, Len(q) - 1)

\* e put behind every entry of q that is not newer
InsertByTime(e, q) ==
    LET n == Cardinality({i \in 1..Len(q) : q[i].timestamp <= e.timestamp})
    IN  SubSeq(q, 1, n) \o <<e>> \o SubSeq(q, n + 1, Len(q))

\* a sort that leaves the list in the order of the index
SortedByTime_IndexOrder(q) == q

RECURSIVE SortedByTime(_)
\* cache_files.sort(key=lambda x: x[2]): stable, oldest first
SortedByTime(q) ==
    IF q = <<>> THEN <<>> ELSE InsertByTime(Last(q), SortedByTime(Front(q)))

RECURSIVE TotalSize(_, _)
TotalSize(q, files) ==
    IF q = <<>> THEN 0 ELSE getsize(files, Head(q).key) + TotalSize(Tail(q), files)

RECURSIVE EvictLoop(_, _, _, _)
\* lines 133-140: the entries removed, in the order of their removal, until
\* the total fits
EvictLoop(q, i, total_size, files) ==
    IF i > Len(q) \/ total_size <= max_cache_size THEN <<>>
    ELSE <<[key |-> q[i].key, timestamp |-> q[i].timestamp,
            size |-> getsize(files, q[i].key)]>>
         \o EvictLoop(q, i + 1, total_size - getsize(files, q[i].key), files)

\* a cleanup that drops the expired entries and leaves the size alone
_clean_expired_cache_AgeOnly(index, files, now) ==
    LET missing == {k \in IndexKeys(index) : k \notin FileKeys(files)}
        expired == {index[i].key : i \in {j \in 1..Len(index) :
                        /\ index[j].key \in FileKeys(files)
                        /\ now - index[j].timestamp > max_cache_age}}
    IN  [index |-> Deleted(index, missing \cup expired),
         files |-> Removed(files, expired),
         evicted |-> missing \cup expired,
         oversized |-> <<>>]

_clean_expired_cache(index, files, now) ==
    LET missing == {k \in IndexKeys(index) : k \notin FileKeys(files)}
        expired == {index[i].key : i \in {j \in 1..Len(index) :
                        /\ index[j].key \in FileKeys(files)
                        /\ now - index[j].timestamp > max_cache_age}}
        cache_files == Deleted(index, missing \cup expired)
        total_size == TotalSize(cache_files, files)
        oversized == IF total_size > max_cache_size
                     THEN EvictLoop(SortedByTime(cache_files), 1, total_size, files)
                     ELSE <<>>
        oversize == IndexKeys(oversized)
    IN  [index |-> Deleted(index, missing \cup expired \cup oversize),
         files |-> Removed(files, expired \cup oversize),
         evicted |-> missing \cup expired \cup oversize,
         oversized |-> oversized]

\* a lookup that answers from the index alone, whatever the key
get_cache_AnyEntry(index, files, key) ==
    IF index = <<>>
    THEN [ret |-> <<>>, index |-> index]
    ELSE [ret |-> cache_file(key), index |-> index]

\* a lookup that drops every index entry whose file is missing
get_cache_Purge(index, files, key) ==
    IF key = NoKey \/ key \notin IndexKeys(index)
    THEN [ret |-> <<>>, index |-> index]
    ELSE IF key \notin FileKeys(files)
         THEN [ret |-> <<>>,
               index |-> Deleted(index, IndexKeys(index) \ FileKeys(files))]
         ELSE [ret |-> cache_file(key), index |-> index]

\* get_cache from the key on, lines 162-175: the path, or None
get_cache(index, files, key) ==
    IF key = NoKey \/ key \notin IndexKeys(index)
    THEN [ret |-> <<>>, index |-> index]
    ELSE IF key \notin FileKeys(files)
         THEN [ret |-> <<>>, index |-> Deleted(index, {key})]
         ELSE [ret |-> cache_file(key), index |-> index]

\* index[cache_key] = {"timestamp": time.time(), ...}: an entry that exists
\* keeps its place in the dictionary
Indexed(index, key, now) ==
    IF key \in IndexKeys(index)
    THEN [i \in 1..Len(index) |->
             IF index[i].key = key THEN [key |-> key, timestamp |-> now] ELSE index[i]]
    ELSE Append(index, [key |-> key, timestamp |-> now])

\* save_cache from the key on, lines 196-217; shutil.copy2 raises when the
\* output file is missing
save_cache(index, files, now, key, out_exists, size) ==
    IF key = NoKey \/ ~out_exists
    THEN [ret |-> <<>>, index |-> index, files |-> files, evicted |-> {},
          oversized |-> <<>>]
    ELSE LET copied == Removed(files, {key}) \cup {[key |-> key, size |-> size]}
             cleaned == _clean_expired_cache(Indexed(index, key, now), copied, now)
         IN  [ret |-> cache_file(key), index |-> cleaned.index,
              files |-> cleaned.files, evicted |-> cleaned.evicted,
              oversized |-> cleaned.oversized]

\* everything but the cache: the quantizer harness, the render, the converter
cacheFrame == <<call, renderVars, conv, others>>

\* CacheManager.save_cache(input_file, output_file, speaker_id, pitch_adjust)
SaveCache ==
    /\ \E r \in CachedRequests, out_exists \in BOOLEAN, size \in 1..MaxFileSize :
         LET key == _generate_cache_key(r)
             saved == save_cache(cache.index, cache.files, cache.now, key, out_exists, size)
         IN  cache' = [cache EXCEPT
                          !.index = saved.index,
                          !.files = saved.files,
                          !.op = [fn |-> "save_cache", key |-> key, ret |-> saved.ret,
                                  evicted |-> saved.evicted,
                                  oversized |-> saved.oversized]]
    /\ UNCHANGED cacheFrame

\* CacheManager.get_cache(input_file, speaker_id, pitch_adjust)
GetCache ==
    /\ \E r \in CachedRequests :
         LET key == _generate_cache_key(r)
             got == get_cache(cache.index, cache.files, key)
         IN  cache' = [cache EXCEPT
                          !.index = got.index,
                          !.op = [fn |-> "get_cache", key |-> key, ret |-> got.ret,
                                  deleted |-> IndexKeys(cache.index) \ IndexKeys(got.index)]]
    /\ UNCHANGED cacheFrame

\* CacheManager.clear_cache: every file of the directory is removed,
\* chorus_cache.json among them, and the index is written empty
ClearCache ==
    /\ cache' = [cache EXCEPT !.index = <<>>, !.files = {},
                              !.chorus = NoChorusFile,
                              !.op = [fn |-> "clear_cache"]]
    /\ UNCHANGED cacheFrame

ChorusKeys == {"song_a", "song_b"}

\* an interval {"start": a, "end": b} as <<a, b>>
Intervals == {iv \in (0..MaxChorus) \X (0..MaxChorus) : iv[1] < iv[2]}

\* the dictionary of chorus_cache.json as its set of items; {} without the file
_load_chorus_cache(chorus) == IF ~chorus.exists THEN {} ELSE chorus.cache

\* cache.get(cache_key): the interval, or None
get_chorus_interval(chorus, cache_key) ==
    LET loaded == _load_chorus_cache(chorus)
    IN  IF \E it \in loaded : it[1] = cache_key
        THEN (CHOOSE it \in loaded : it[1] = cache_key)[2]
        ELSE <<>>

\* cache[cache_key] = interval, written back to chorus_cache.json
save_chorus_interval(chorus, cache_key, interval) ==
    LET loaded == _load_chorus_cache(chorus)
    IN  [exists |-> TRUE,
         cache |-> {it \in loaded : it[1] # cache_key} \cup {<<cache_key, interval>>}]

\* CacheManager.save_chorus_interval(cache_key, interval)
SaveChorus ==
    /\ \E cache_key \in ChorusKeys, interval \in Intervals :
         cache' = [cache EXCEPT
                      !.chorus = save_chorus_interval(cache.chorus, cache_key, interval),
                      !.op = [fn |-> "save_chorus_interval", key |-> cache_key,
                              interval |-> interval]]
    /\ UNCHANGED cacheFrame

\* CacheManager.get_chorus_interval(cache_key)
GetChorus ==
    /\ \E cache_key \in ChorusKeys :
         cache' = [cache EXCEPT
                      !.op = [fn |-> "get_chorus_interval", key |-> cache_key,
                              ret |-> get_chorus_interval(cache.chorus, cache_key)]]
    /\ UNCHANGED cacheFrame

\* CacheManager.__init__ on the directory as it is (a restart of the plugin):
\* _init_cache runs a cleanup pass
Construct ==
    /\ LET cleaned == _clean_expired_cache(cache.index, cache.files, cache.now)
       IN  cache' = [cache EXCEPT
                        !.index = cleaned.index,
                        !.files = cleaned.files,
                        !.op = [fn |-> "__init__", evicted |-> cleaned.evicted,
                                oversized |-> cleaned.oversized]]
    /\ UNCHANGED cacheFrame

\* _generate_cache_key on two requests; it reads nothing of the cache, and is
\* called here on the fresh one
GenerateKeys ==
    /\ cache = [index |-> <<>>, files |-> {}, now |-> 0, op |-> NoOp,
                chorus |-> NoChorusFile]
    /\ \E r1 \in Requests, r2 \in Requests :
         cache' = [cache EXCEPT
                      !.op = [fn |-> "_generate_cache_key", args |-> <<r1, r2>>,
                              ret |-> <<_generate_cache_key(r1), _generate_cache_key(r2)>>]]
    /\ UNCHANGED cacheFrame

\* time.time() advances
Tick ==
    /\ cache.now < MaxTime
    /\ cache' = [cache EXCEPT !.now = @ + 1, !.op = NoOp]
    /\ UNCHANGED cacheFrame

\* a cached file is deleted from outside the plugin
RemoveFile ==
    /\ \E f \in cache.files :
         cache' = [cache EXCEPT !.files = @ \ {f}, !.op = NoOp]
    /\ UNCHANGED cacheFrame

InitCache ==
    /\ call = NoCall
    /\ tempo = RInt(1)
    /\ RenderIdle
    /\ ConvIdle
    /\ CacheEmpty
    /\ OthersIdle

NextCache ==
    \/ SaveCache \/ GetCache \/ ClearCache \/ Construct \/ GenerateKeys \/ Tick

\* the cache directory written by the CacheManager alone
SpecCache == InitCache /\ [][NextCache]_vars

NextCacheEnv ==
    \/ SaveCache \/ GetCache \/ ClearCache \/ Construct \/ GenerateKeys \/ Tick
    \/ RemoveFile

NextChorus ==
    \/ SaveCache \/ GetCache \/ ClearCache \/ SaveChorus \/ GetChorus

\* the conversion cache and the chorus intervals of one cache directory
SpecChorus == InitCache /\ [][NextChorus]_vars

\* the cache directory also losing files underneath the CacheManager
SpecCacheEnv == InitCache /\ [][NextCacheEnv]_vars

CacheKeys == IndexKeys(cache.index)

IsGet == cache.op.fn = "get_cache"

IsSave == cache.op.fn = "save_cache"

\* the last call ran a cleanup pass to its end
CleanupDone == (IsSave /\ cache.op.ret # <<>>) \/ cache.op.fn = "__init__"

\* C17: get_cache returns the path of the key's cache file exactly when the
\* key has an index entry, and None otherwise; an entry comes into the index
\* only by a successful save_cache of its key, which leaves it there unless
\* the same call's cleanup evicts it, and it leaves the index only by the
\* eviction of a cleanup pass or by clear_cache.  So every get_cache after a
\* successful save_cache returns the stored path until the entry is evicted
\* or the cache cleared, and None for a key never saved, evicted or cleared.
C17_RoundTrip ==
    /\ [](CacheKeys \subseteq FileKeys(cache.files))
    /\ [](IsGet => cache.op.ret = IF cache.op.key \in CacheKeys
                                   THEN cache_file(cache.op.key) ELSE <<>>)
    /\ []((IsSave /\ cache.op.ret # <<>>) =>
             /\ cache.op.ret = cache_file(cache.op.key)
             /\ cache.op.key \in CacheKeys \cup cache.op.evicted)
    /\ [][\A k \in CacheKeys \ CacheKeys' :
             \/ cache'.op.fn = "clear_cache"
             \/ cache'.op.fn \in {"save_cache", "__init__"} /\ k \in cache'.op.evicted]_vars
    /\ [][\A k \in CacheKeys' \ CacheKeys :
             /\ cache'.op.fn = "save_cache"
             /\ cache'.op.key = k
             /\ cache'.op.ret = cache_file(k)]_vars

C17_Witness ==
    /\ IsGet
    /\ cache.op.ret = cache_file(cache.op.key)
    /\ Len(cache.index) >= 2
    /\ \E i \in 1..Len(cache.index) :
          cache.index[i].key = cache.op.key /\ cache.index[i].timestamp < cache.now

\* the two requests have the same input content and equal parameters
SameRequest(r1, r2) ==
    /\ r1.head = r2.head /\ r1.tail = r2.tail
    /\ r1.speaker_id = r2.speaker_id
    /\ r1.pitch_adjust = r2.pitch_adjust
    /\ r1.kwargs = r2.kwargs

\* C18: two requests on existing input files get the same cache key if and
\* only if the files have the same content and the speaker id, the pitch
\* adjust and every other parameter are equal.
C18_KeyIdentity ==
    (cache.op.fn = "_generate_cache_key"
        /\ cache.op.args[1].exists /\ cache.op.args[2].exists) =>
        (cache.op.ret[1] = cache.op.ret[2]
            <=> SameRequest(cache.op.args[1], cache.op.args[2]))

\* C20: right after a cleanup pass that ran to its end (construction, or a
\* save_cache that returned a path) no index entry is older than
\* max_cache_age, every index entry has its file, and the indexed files
\* total at most max_cache_size.
C20_CleanupPost ==
    CleanupDone =>
        /\ \A i \in 1..Len(cache.index) :
              /\ cache.now - cache.index[i].timestamp <= max_cache_age
              /\ cache.index[i].key \in FileKeys(cache.files)
        /\ TotalSize(cache.index, cache.files) <= max_cache_size

C20_Witness ==
    /\ CleanupDone
    /\ Cardinality(cache.op.evicted) >= 2
    /\ cache.index # <<>>
    /\ \E k \in cache.op.evicted : k \notin FileKeys(cache.files)

(***************************************************************************)
(* The convert_voice command of the plugin, from the cache lookup to the   *)
(* save of the result. plugin.stored and plugin.content are history: the   *)
(* requests whose result is in the cache, and whose result each cache file *)
(* holds.                                                                  *)
(***************************************************************************)
Audios == 1..MaxAudio

\* a command: the audio it names, and whether it carries -c
PluginRequests == [audio : Audios, only_chorus : BOOLEAN]

\* cache_params, built from the converter's settings alone
cache_params == {<<"k_step", PyValue("int", "100")>>}

\* audio[start:end] exported to input_..._chorus.wav: another file content
chorus_audio(audio) == MaxAudio + audio

\* what get_cache and save_cache are called with for an input file
CacheArgs(input_file) ==
    [exists |-> TRUE, head |-> input_file, tail |-> 1,
     speaker_id |-> PyValue("str", "0"), pitch_adjust |-> PyValue("int", "0"),
     kwargs |-> cache_params]

ContentOf(content, key) == (CHOOSE c \in content : c[1] = key)[2]

pluginFrame == <<call, renderVars, conv, msst, qq>>

\* convert_voice from the command to the cached reply or, on a miss, to the
\* input file ready for separation (with -c: the chorus cut)
Lookup ==
    /\ plugin.pc = "idle"
    /\ \E req \in PluginRequests, detected \in BOOLEAN :
         LET input_file == req.audio
             key == _generate_cache_key(CacheArgs(input_file))
             got == get_cache(cache.index, cache.files, key)
             known == req \in {st.req : st \in plugin.stored}
         IN  /\ cache' = [cache EXCEPT
                              !.index = got.index,
                              !.op = [fn |-> "get_cache", key |-> key, ret |-> got.ret,
                                      deleted |-> IndexKeys(cache.index) \ IndexKeys(got.index)]]
             /\ IF got.ret # <<>>
                THEN plugin' = [plugin EXCEPT
                                   !.last = [req |-> req, known |-> known,
                                             answered |-> "cache",
                                             reply |-> ContentOf(plugin.content, key)]]
                ELSE IF req.only_chorus /\ ~detected
                THEN plugin' = [plugin EXCEPT
                                   !.last = [req |-> req, known |-> known,
                                             answered |-> "failed", reply |-> NoReq]]
                ELSE plugin' = [plugin EXCEPT
                                   !.pc = "processing",
                                   !.req = req,
                                   !.known = known,
                                   !.input_file = IF req.only_chorus
                                                  THEN chorus_audio(req.audio)
                                                  ELSE input_file]
    /\ UNCHANGED pluginFrame

\* convert_voice from the separation to the reply: separation, conversion and
\* mixing succeed or not; on success the result is saved under the key of
\* input_file and sent
Process ==
    /\ plugin.pc = "processing"
    /\ \E ok \in BOOLEAN :
         IF ~ok
         THEN /\ plugin' = [plugin EXCEPT
                               !.pc = "idle",
                               !.last = [req |-> plugin.req, known |-> plugin.known,
                                         answered |-> "failed", reply |-> NoReq]]
              /\ UNCHANGED cache
         ELSE LET key == _generate_cache_key(CacheArgs(plugin.input_file))
                  saved == save_cache(cache.index, cache.files, cache.now, key, TRUE, 1)
                  gone == saved.evicted \cup {key}
              IN  /\ cache' = [cache EXCEPT
                                   !.index = saved.index,
                                   !.files = saved.files,
                                   !.op = [fn |-> "save_cache", key |-> key,
                                           ret |-> saved.ret,
                                           evicted |-> saved.evicted,
                                           oversized |-> saved.oversized]]
                  /\ plugin' = [plugin EXCEPT
                                    !.pc = "idle",
                                    !.stored = {st \in @ : st.key \notin gone}
                                               \cup {st \in {[req |-> plugin.req, key |-> key]} :
                                                        key \notin saved.evicted},
                                    !.content = {c \in @ : c[1] \notin gone}
                                                \cup {c \in {<<key, plugin.req>>} :
                                                         key \notin saved.evicted},
                                    !.last = [req |-> plugin.req, known |-> plugin.known,
                                              answered |-> "run", reply |-> plugin.req]]
    /\ UNCHANGED pluginFrame

InitPlugin ==
    /\ call = NoCall
    /\ tempo = RInt(1)
    /\ RenderIdle
    /\ ConvIdle
    /\ CacheEmpty
    /\ OthersIdle

NextPlugin == Lookup \/ Process

\* convert_voice commands handled one after the other
SpecPlugin == InitPlugin /\ [][NextPlugin]_vars

\* C28: a request whose result was stored by an earlier successful request
\* and not evicted since is answered from get_cache, without and with -c;
\* and a -c request is never answered with the result of a request without -c
C28_RepeatServedFromCache ==
    /\ plugin.last.known => plugin.last.answered = "cache"
    /\ (plugin.last.answered = "cache" /\ plugin.last.req.only_chorus)
           => plugin.last.reply.only_chorus

(***************************************************************************)
(* Two convert_voice commands using the separation server. The server      *)
(* keeps its results under the two names the plugin downloads; 0 is no     *)
(* file, h the stem separated from the input of handler h.                 *)
(***************************************************************************)
msstFrame == <<call, renderVars, conv, cache, plugin, qq>>

\* MSSTProcessor.process_audio up to the POST of the input as "input.wav"
Separate(h) ==
    /\ msst.pc[h] = "idle"
    /\ msst' = [msst EXCEPT !.pc[h] = "posted"]
    /\ UNCHANGED msstFrame

\* the server answers the POST: on success both stems of this input are
\* under their fixed names; otherwise process_audio fails and the handler
\* returns
Infer(h) ==
    /\ msst.pc[h] = "posted"
    /\ \E ok \in BOOLEAN :
         msst' = IF ok
                 THEN [msst EXCEPT !.pc[h] = "separated",
                                   !.server = [vocals |-> h, inst |-> h]]
                 ELSE [msst EXCEPT !.pc[h] = "failed"]
    /\ UNCHANGED msstFrame

\* download_file("input_vocals_noreverb.wav", vocal_file)
DownloadVocals(h) ==
    /\ msst.pc[h] = "separated"
    /\ \E ok \in BOOLEAN :
         msst' = IF ok
                 THEN [msst EXCEPT !.pc[h] = "vocals",
                                   !.got[h].vocals = msst.server.vocals]
                 ELSE [msst EXCEPT !.pc[h] = "failed"]
    /\ UNCHANGED msstFrame

\* download_file("input_instrumental.wav", inst_file)
DownloadInst(h) ==
    /\ msst.pc[h] = "vocals"
    /\ \E ok \in BOOLEAN :
         msst' = IF ok
                 THEN [msst EXCEPT !.pc[h] = "stems",
                                   !.got[h].inst = msst.server.inst]
                 ELSE [msst EXCEPT !.pc[h] = "failed"]
    /\ UNCHANGED msstFrame

\* convert_voice_async on the downloaded vocals takes task_lock
Convert(h) ==
    /\ msst.pc[h] = "stems"
    /\ ~msst.locked
    /\ msst' = [msst EXCEPT !.pc[h] = "converting", !.locked = TRUE]
    /\ UNCHANGED msstFrame

\* the conversion ends and task_lock is released
Converted(h) ==
    /\ msst.pc[h] = "converting"
    /\ msst' = [msst EXCEPT !.pc[h] = "done", !.locked = FALSE]
    /\ UNCHANGED msstFrame

InitMsst ==
    /\ call = NoCall
    /\ tempo = RInt(1)
    /\ RenderIdle
    /\ ConvIdle
    /\ CacheEmpty
    /\ OthersIdle

NextMsst ==
    \E h \in Handlers :
        \/ Separate(h) \/ Infer(h) \/ DownloadVocals(h) \/ DownloadInst(h)
        \/ Convert(h) \/ Converted(h)

\* convert_voice commands handled concurrently
SpecMsst == InitMsst /\ [][NextMsst]_vars

\* C29: the vocal and the instrumental stem a handler downloads are the
\* ones separated from that handler's own input, in every interleaving of
\* two handlers
C29_OwnStems ==
    \A h \in Handlers :
        /\ msst.got[h].vocals \in {0, h}
        /\ msst.got[h].inst \in {0, h}

(***************************************************************************)
(* QQMusicAPI.force_relogin and ensure_login on credential_lock, an        *)
(* asyncio.Lock: not reentrant, waiters served in order.                   *)
(***************************************************************************)
qqFrame == <<call, renderVars, conv, cache, plugin, msst>>

\* Lock.release: unlocked, and the first waiter is woken
QQRelease(q) ==
    [q EXCEPT !.locked = FALSE,
              !.woken = IF q.waiters # <<>> THEN @ \cup {Head(q.waiters)} ELSE @]

\* ensure_login returns value and leaves its "async with"; inside
\* force_relogin the outer "async with" then releases the lock once more,
\* and Lock.release raises RuntimeError on a lock that is not held
Return(q, t, value) ==
    LET released == QQRelease(q)
    IN  [released EXCEPT !.pc[t] = "done",
                         !.ret[t] = IF q.fn[t] = "force_relogin"
                                    THEN "RuntimeError" ELSE value]

\* ensure_login with the lock held, up to its first await
EnsureBody(q, t) ==
    IF q.credential THEN [q EXCEPT !.pc[t] = "valid"]
    ELSE IF q.file THEN [q EXCEPT !.pc[t] = "load"]
    ELSE [q EXCEPT !.pc[t] = "qr"]

\* "async with self.credential_lock" of ensure_login
EnsureEnter(q, t) ==
    IF ~q.locked /\ q.waiters = <<>>
    THEN EnsureBody([q EXCEPT !.locked = TRUE], t)
    ELSE [q EXCEPT !.waiters = Append(@, t), !.pc[t] = "e_wait"]

\* force_relogin with the lock held: _clear_credential, then await
\* self.ensure_login()
ForceBody(q, t) ==
    EnsureEnter([q EXCEPT !.credential = FALSE, !.file = FALSE], t)

CallForce(t) ==
    /\ qq.pc[t] = "idle"
    /\ LET q == [qq EXCEPT !.fn[t] = "force_relogin"]
       IN  qq' = IF ~q.locked /\ q.waiters = <<>>
                 THEN ForceBody([q EXCEPT !.locked = TRUE], t)
                 ELSE [q EXCEPT !.waiters = Append(@, t), !.pc[t] = "f_wait"]
    /\ UNCHANGED qqFrame

CallEnsure(t) ==
    /\ qq.pc[t] = "idle"
    /\ qq' = EnsureEnter([qq EXCEPT !.fn[t] = "ensure_login"], t)
    /\ UNCHANGED qqFrame

\* a woken waiter takes the lock and goes on
QQResume(t) ==
    /\ t \in qq.woken
    /\ LET q == [qq EXCEPT !.woken = @ \ {t},
                           !.waiters = SelectSeq(@, LAMBDA w : w # t),
                           !.locked = TRUE]
       IN  qq' = IF qq.pc[t] = "f_wait" THEN ForceBody(q, t) ELSE EnsureBody(q, t)
    /\ UNCHANGED qqFrame

\* await self._is_credential_valid()
Valid(t) ==
    /\ qq.pc[t] = "valid"
    /\ \E valid \in BOOLEAN :
         qq' = IF valid THEN Return(qq, t, "True") ELSE [qq EXCEPT !.pc[t] = "refresh"]
    /\ UNCHANGED qqFrame

\* await self._refresh_credential(); when it fails the credential is
\* cleared and nothing is left to load
Refresh(t) ==
    /\ qq.pc[t] = "refresh"
    /\ \E refreshed \in BOOLEAN :
         qq' = IF refreshed THEN Return(qq, t, "True")
               ELSE [qq EXCEPT !.credential = FALSE, !.file = FALSE, !.pc[t] = "qr"]
    /\ UNCHANGED qqFrame

\* await self._load_credential(): a credential, or None for a file that
\* lacks a field
Load(t) ==
    /\ qq.pc[t] = "load"
    /\ \E loaded \in BOOLEAN :
         qq' = IF loaded THEN [qq EXCEPT !.credential = TRUE, !.pc[t] = "valid"]
               ELSE [qq EXCEPT !.pc[t] = "qr"]
    /\ UNCHANGED qqFrame

\* await get_qrcode(...) and the save of the picture
GetQR(t) ==
    /\ qq.pc[t] = "qr"
    /\ \E ok \in BOOLEAN :
         qq' = IF ok THEN [qq EXCEPT !.pc[t] = "poll"] ELSE Return(qq, t, "False")
    /\ UNCHANGED qqFrame

QRCodeLoginEvents == {"DONE", "SCAN", "CONF", "TIMEOUT", "REFUSE"}

\* one turn of the "while True" on check_qrcode; the collaborator reports
\* SCAN or CONF at most MaxPolls times
Poll(t) ==
    /\ qq.pc[t] = "poll"
    /\ \E event \in QRCodeLoginEvents :
         /\ event \in {"SCAN", "CONF"} => qq.polls[t] < MaxPolls
         /\ qq' = CASE event = "DONE" ->
                         Return([qq EXCEPT !.credential = TRUE, !.file = TRUE], t, "True")
                    [] event \in {"SCAN", "CONF"} ->
                         [qq EXCEPT !.polls[t] = @ + 1]
                    [] OTHER -> Return(qq, t, "False")
    /\ UNCHANGED qqFrame

InitQQ ==
    /\ call = NoCall
    /\ tempo = RInt(1)
    /\ RenderIdle
    /\ ConvIdle
    /\ CacheEmpty
    /\ PluginIdle
    /\ MsstIdle
    /\ \E file \in BOOLEAN : qq = QQFresh(file)

NextQQ ==
    \E t \in Callers :
        \/ CallForce(t) \/ CallEnsure(t) \/ QQResume(t) \/ Valid(t) \/ Refresh(t)
        \/ Load(t) \/ GetQR(t) \/ Poll(t)

\* the event loop runs every task that can go on, and the collaborators
\* answer every await
SpecQQ == InitQQ /\ [][NextQQ]_vars /\ WF_vars(NextQQ)

\* C24: every call of force_relogin eventually returns
C24_ForceReloginReturns ==
    \A t \in Callers : (qq.fn[t] = "force_relogin") ~> (qq.pc[t] = "done")

\* C21: size eviction is oldest-first and minimal: a cleanup pass removes the
\* unexpired entries in ascending order of timestamp, so that every entry
\* removed for size is no newer than any entry that survives; it removes an
\* entry only while the total is above max_cache_size, and it ends with the
\* total within max_cache_size
C21_OldestFirstMinimal ==
    CleanupDone =>
        LET oversized == cache.op.oversized
            left == TotalSize(cache.index, cache.files)
        IN  /\ \A i \in 1..Len(oversized) : \A j \in 1..Len(cache.index) :
                   oversized[i].timestamp <= cache.index[j].timestamp
            /\ \A i \in 1..Len(oversized) : \A j \in i..Len(oversized) :
                   oversized[i].timestamp <= oversized[j].timestamp
            /\ oversized # <<>> => left + Last(oversized).size > max_cache_size
            /\ left <= max_cache_size

C21_Witness ==
    /\ CleanupDone
    /\ Len(cache.op.oversized) = 2
    /\ \E j \in 1..Len(cache.index) :
          cache.op.oversized[2].timestamp < cache.index[j].timestamp

\* C25: whenever save_cache returns a path, at its return the file of that
\* path is in the cache directory and its key is in the index
C25_SavedIsCached ==
    (IsSave /\ cache.op.ret # <<>>) =>
        /\ cache.op.key \in FileKeys(cache.files)
        /\ cache.op.key \in CacheKeys

\* a call of get_cache that changed the cache or answered another request
GetStep == cache'.op.fn = "get_cache" /\ cache' # cache

\* C26: get_cache never returns a path whose file does not exist; when the
\* index holds the key and the cached file is missing it returns None and
\* removes exactly that key from the index; in every other case it leaves the
\* index as it is; it never changes a cache file
C26_GetCacheFrame ==
    [][GetStep =>
        LET key == cache'.op.key
            ret == cache'.op.ret
        IN  /\ cache'.files = cache.files
            /\ cache'.now = cache.now
            /\ ret # <<>> => key \in FileKeys(cache.files) /\ ret = cache_file(key)
            /\ IF key \in IndexKeys(cache.index) /\ key \notin FileKeys(cache.files)
               THEN /\ ret = <<>>
                    /\ cache'.index = SelectSeq(cache.index, LAMBDA e : e.key # key)
               ELSE cache'.index = cache.index]_vars

C26_Witness ==
    /\ IsGet
    /\ cache.op.ret = <<>>
    /\ cache.op.deleted = {cache.op.key}
    /\ \E k \in CacheKeys : k \notin FileKeys(cache.files)

\* C27: clear_cache removes only conversion results: after it the index is
\* empty and get_cache returns None for every key, and get_chorus_interval
\* returns for every key what it returned before
C27_ClearKeepsChorus ==
    [][cache'.op.fn = "clear_cache" =>
        /\ cache'.index = <<>>
        /\ \A r \in CachedRequests :
              get_cache(cache'.index, cache'.files, _generate_cache_key(r)).ret = <<>>
        /\ \A k \in ChorusKeys :
              get_chorus_interval(cache'.chorus, k) = get_chorus_interval(cache.chorus, k)
      ]_vars
====
